---- MODULE Spec2Model ----
(***************************************************************************)
(* EVM-RealTimeChat-Server: the two server programs of the repository.     *)
(*                                                                         *)
(*   variant = "auth"  src/unnamed/part_000  nonce challenge, signature    *)
(*                     verification, presence registry, dm relay           *)
(*   variant = "chat"  src/src/index.ts      presence registry, dm relay,  *)
(*                     chat room membership                                *)
(*                                                                         *)
(* Node runs every handler to completion on one thread, and no handler     *)
(* awaits: one handler invocation is one atomic action.                    *)
(***************************************************************************)
EXTENDS Integers, Sequences, FiniteSets, Bags, TLC

\* ------------------------------------------------------------------ bounds
MaxSockets == 3          \* socket ids in use at one time are drawn from 1..MaxSockets
MaxTick    == 2          \* the clock advances MaxTick times
TickMs     == 150000     \* milliseconds per clock step
ISOWidth   == 7          \* digits of a timestamp string

\* ------------------------------------------------------- program constants
NONCE_TTL_MS   == 5 * 60 * 1000
SIWE_STATEMENT == "Sign in to EVM RealTimeChat"
SIWE_VERSION   == "1"
APP_NAME       == "EVM RealTimeChat"

\* ------------------------------------------------------------- value sets
Identities == {"0xa", "0xb", "0xc"}      \* lowercase addresses
ChatIds    == {"r1", "r2"}
SocketIds  == 1..MaxSockets
NonceTokens == <<"n1", "n2">>            \* what randomBytes(16).toString('hex') returns, call by call
Nonces     == {NonceTokens[k] : k \in DOMAIN NonceTokens}
NoNonce    == ""                         \* typedData.message.nonce absent
Garbage    == "0x?"                      \* what recovery yields for a signature over another message

\* An address as a client writes it: the identity it lowercases to, and its
\* casing: all lowercase, EIP-55 checksum casing, or mixed case with a wrong
\* checksum ("lower", "checksum", "badsum").  id = "" is an absent (falsy)
\* value.  Clients send addresses the way wallets print them, in mixed case.
NoAddress    == [id |-> "", form |-> "lower"]
RawAddresses == [id : Identities, form : {"checksum", "badsum"}] \cup {NoAddress}

Falsy(raw) == raw.id = ""

\* String.prototype.toLowerCase on an address string.
ToLowerCase(raw) == raw.id

\* ethers.getAddress: throws on a mixed-case address whose checksum is wrong,
\* returns the checksum casing otherwise.
GetAddressThrows(raw) == raw.form = "badsum"
GetAddress(raw) == [id |-> raw.id, form |-> "checksum"]

\* ------------------------------------------------------------------ time
\* Date.prototype.toISOString: a fixed-width positional string, most
\* significant field first; modelled as the ISOWidth decimal digits of the
\* millisecond count.
Pow10(k) == IF k = 0 THEN 1 ELSE IF k = 1 THEN 10 ELSE IF k = 2 THEN 100
            ELSE IF k = 3 THEN 1000 ELSE IF k = 4 THEN 10000
            ELSE IF k = 5 THEN 100000 ELSE IF k = 6 THEN 1000000
            ELSE 10000000
ToISOString(ms) == [i \in 1..ISOWidth |-> (ms \div Pow10(ISOWidth - i)) % 10]

\* JavaScript's <= on two strings: code-unit lexicographic order.
StrLE(x, y) ==
    \/ x = y
    \/ \E i \in 1..Len(x) :
          /\ i <= Len(y)
          /\ \A j \in 1..(i - 1) : x[j] = y[j]
          /\ x[i] < y[i]
    \/ /\ Len(x) < Len(y)
       /\ \A j \in 1..Len(x) : x[j] = y[j]

VARIABLES
    variant,           \* which program runs
    now,               \* the clock, in steps of TickMs
    nonceChallenges,   \* part_000: nonce -> NonceChallenge
    nextNonce,         \* part_000: randomBytes(16) never repeats; index of the next token
    addressToSockets,  \* address -> set of socket ids
    chatRoomMembers,   \* index.ts: chatId -> set of addresses
    connected,         \* socket id -> the socket's data, for the sockets the transport holds open
    out,               \* the calls the last handler made on the transport and the console
    authCount          \* history: nonce -> connections that authenticated with it (0, 1, 2 = more)

vars == <<variant, now, nonceChallenges, nextNonce, addressToSockets,
          chatRoomMembers, connected, out, authCount>>

DateNow == now * TickMs

\* ------------------------------------------------------------ map helpers
Get(map, k)    == map[k]
Has(map, k)    == k \in DOMAIN map
Set(map, k, v) == [x \in DOMAIN map \cup {k} |-> IF x = k THEN v ELSE map[x]]
Delete(map, k) == [x \in DOMAIN map \ {k} |-> map[x]]
EmptyMap       == [x \in {} |-> {}]

\* ---------------------------------------------------------------- events
NoMsg == [from |-> "", to |-> NoAddress, body |-> "", ts |-> 0]

\* One call that emits: the event name, the sockets it reaches, its payload
\* and the source line of the call.
Emit(ev, rcpt, address, users, msg, line) ==
    [ev |-> ev, rcpt |-> rcpt, address |-> address, users |-> users,
     msg |-> msg, chat |-> "", members |-> {}, line |-> line]

\* console.log of a chat room's transition.
LogChat(ev, chatId, members, line) ==
    [ev |-> ev, rcpt |-> {}, address |-> "", users |-> {},
     msg |-> NoMsg, chat |-> chatId, members |-> members, line |-> line]

One(e) == SetToBag({e})

LiveSockets == DOMAIN connected

\* socket.id of an incoming connection: an opaque id no open socket has.  Ids
\* carry no meaning, so the least free one stands for any of them.
FreshSocketIds ==
    IF SocketIds \ LiveSockets = {} THEN {}
    ELSE {CHOOSE s \in SocketIds \ LiveSockets :
             \A t \in SocketIds \ LiveSockets : s <= t}

EverySocket(s) == LiveSockets \cup {s}

\* Every socket the transport holds open but `s`: socket.broadcast.emit from
\* s, and io.emit while s is being closed.
OtherSockets(s) == LiveSockets \ {s}

\* --------------------------------------------------- typed data, signatures
\* The typed payload of lines 200-216: the EIP-712 domain and the SignIn
\* message, every field from the stored challenge and the server's constants.
BuildMessage(nonce, challenge) ==
    [name |-> APP_NAME, dversion |-> SIWE_VERSION, dchainId |-> challenge.chainId,
     domain |-> challenge.domain, address |-> challenge.address,
     statement |-> SIWE_STATEMENT, uri |-> challenge.uri,
     version |-> SIWE_VERSION, chainId |-> challenge.chainId, nonce |-> nonce,
     issuedAt |-> challenge.issuedAt, expirationTime |-> challenge.expirationTime]

NoTyped ==
    [name |-> "", dversion |-> "", dchainId |-> 0, domain |-> "", address |-> "",
     statement |-> "", uri |-> "", version |-> "", chainId |-> 0, nonce |-> NoNonce,
     issuedAt |-> <<>>, expirationTime |-> <<>>]

\* A signature: absent, not a signature at all, or the key of `signer` over
\* the typed payload `msg`.
NoSignature        == [kind |-> "none", signer |-> "", msg |-> NoTyped]
MalformedSignature == [kind |-> "malformed", signer |-> "", msg |-> NoTyped]
Sign(signer, msg)  == [kind |-> "sig", signer |-> signer, msg |-> msg]

\* ethers.verifyTypedData: throws on bytes that are no signature; recovers
\* the signer's address when the payload is the signed one, and some other
\* address when it is not.
VerifyThrows(signature) == signature.kind # "sig"
VerifyTypedData(msg, signature) ==
    IF signature.msg = msg
    THEN [id |-> signature.signer, form |-> "checksum"]
    ELSE [id |-> Garbage, form |-> "checksum"]

\* ------------------------------------------------------------------- Init
Init ==
    /\ variant \in {"auth", "chat"}
    /\ now = 0
    /\ nonceChallenges = EmptyMap
    /\ nextNonce = 1
    /\ addressToSockets = EmptyMap
    /\ chatRoomMembers = EmptyMap
    /\ connected = EmptyMap
    /\ out = EmptyBag
    /\ authCount = [n \in Nonces |-> 0]

\* Time passes between two handlers.
Tick ==
    /\ now < MaxTick
    /\ now' = now + 1
    /\ out' = EmptyBag
    /\ UNCHANGED <<variant, nonceChallenges, nextNonce, addressToSockets,
                   chatRoomMembers, connected, authCount>>

\* ------------------------------------------- part_000: the nonce endpoint
ChainIdRaws == {"", "1", "0", "abc"}
Host        == "localhost:10000"
NoOrigin    == ""
Origin      == "http://localhost:5173"

\* The requests tried: the three that are no nonce request, a nonce request
\* for each way of writing an address, and one for each chainId string.
Request(method, path, addressRaw, chainIdRaw, origin) ==
    [method |-> method, path |-> path, address |-> addressRaw,
     chainId |-> chainIdRaw, origin |-> origin]
Requests ==
    {Request("OPTIONS", "/auth/nonce", NoAddress, "", Origin),
     Request("POST", "/auth/nonce", NoAddress, "", Origin),
     Request("GET", "/", NoAddress, "", NoOrigin)}
        \cup {Request("GET", "/auth/nonce", a, "1", Origin) : a \in RawAddresses}
        \cup {Request("GET", "/auth/nonce", [id |-> "0xa", form |-> "checksum"], c, Origin) :
                 c \in ChainIdRaws}

\* Number(chainIdRaw) with Number.isInteger(chainId) && chainId > 0.
NumberOf(raw) == IF raw = "1" THEN 1 ELSE IF raw = "0" \/ raw = "" THEN 0 ELSE -1
IsNaN(raw)    == raw \notin {"", "0", "1"}
ValidChainId(raw) == ~IsNaN(raw) /\ NumberOf(raw) > 0

\* new URL(origin) or new URL(`http://${host}`): its hostname and origin.
OriginUrl(origin) == IF origin # NoOrigin THEN origin ELSE "http://" \o Host
Hostname(url)     == "localhost"
UrlOrigin(url)    == url

Response(status, line) == One(Emit(status, {}, "", {}, NoMsg, line))

NewChallenge(address, chainId, origin) ==
    [address        |-> address,
     chainId        |-> chainId,
     domain         |-> Hostname(OriginUrl(origin)),
     uri            |-> UrlOrigin(OriginUrl(origin)),
     issuedAt       |-> ToISOString(DateNow),
     expirationTime |-> ToISOString(DateNow + NONCE_TTL_MS),
     consumed       |-> FALSE]

HttpRequest(method, path, addressRaw, chainIdRaw, origin) ==
    /\ variant = "auth"
    /\ UNCHANGED <<variant, now, addressToSockets, chatRoomMembers, connected, authCount>>
    /\ IF method = "OPTIONS"
       THEN /\ out' = Response("http:204", 55)
            /\ UNCHANGED <<nonceChallenges, nextNonce>>
       ELSE IF ~(method = "GET" /\ path = "/auth/nonce")
       THEN /\ out' = Response("http:404", 136)
            /\ UNCHANGED <<nonceChallenges, nextNonce>>
       ELSE IF Falsy(addressRaw) \/ chainIdRaw = ""
       THEN /\ out' = Response("http:400", 65)
            /\ UNCHANGED <<nonceChallenges, nextNonce>>
       ELSE IF ~ValidChainId(chainIdRaw)
       THEN /\ out' = Response("http:400", 73)
            /\ UNCHANGED <<nonceChallenges, nextNonce>>
       ELSE IF GetAddressThrows(addressRaw)
       THEN /\ out' = Response("http:400", 83)
            /\ UNCHANGED <<nonceChallenges, nextNonce>>
       ELSE /\ nextNonce <= Len(NonceTokens)
            /\ nonceChallenges' =
                  Set(nonceChallenges, NonceTokens[nextNonce],
                      NewChallenge(ToLowerCase(GetAddress(addressRaw)),
                                   NumberOf(chainIdRaw), origin))
            /\ nextNonce' = nextNonce + 1
            /\ out' = Response("http:200", 107)

\* ------------------------------------------------- the presence registry
IsFirstConnectionAlways(address) == TRUE

\* PRESENCE REGISTER: let sockets = get(address); create the set if absent;
\* sockets.add(socket.id).
IsFirstConnection(address) == ~Has(addressToSockets, address)

Register(address, s) ==
    IF Has(addressToSockets, address)
    THEN Set(addressToSockets, address, Get(addressToSockets, address) \cup {s})
    ELSE Set(addressToSockets, address, {s})

SnapshotUsersOfEveryIdentity(registry) ==
    {[address |-> a, online |-> TRUE] : a \in Identities}

\* The users of a presence:snapshot: Array.from(keys()).map(...).
SnapshotUsers(registry) == {[address |-> a, online |-> TRUE] : a \in DOMAIN registry}

\* if (isFirstConnection) { console.log; socket.broadcast.emit('presence:online') }
OnlineEmits(address, s, logLine, emitLine) ==
    IF IsFirstConnection(address)
    THEN One(Emit("log:USER ONLINE", {}, address, {}, NoMsg, logLine))
         (+) One(Emit("presence:online", OtherSockets(s), address, {}, NoMsg, emitLine))
    ELSE EmptyBag

SnapshotEmit(registry, s, line) ==
    One(Emit("presence:snapshot", {s}, "", SnapshotUsers(registry), NoMsg, line))

\* socket.disconnect(true) before any handler is attached.
Refuse(s, line) == One(Emit("disconnect", {s}, "", {}, NoMsg, line))

\* ------------------------------------------ part_000: io.on('connection')
MissingAuth(addressRaw, signature, nonce) ==
    Falsy(addressRaw) \/ signature.kind = "none" \/ nonce = NoNonce

\* !challenge || challenge.consumed
ChallengeRefused(nonce) ==
    ~Has(nonceChallenges, nonce) \/ Get(nonceChallenges, nonce).consumed

ChallengeExpiredStrictly(challenge) ==
    ~StrLE(ToISOString(DateNow), challenge.expirationTime)

\* challenge.expirationTime <= new Date().toISOString()
ChallengeExpired(challenge) ==
    StrLE(challenge.expirationTime, ToISOString(DateNow))

SignatureAcceptedUncompared(nonce, challenge, signature, address) ==
    ~VerifyThrows(signature)

\* The try block of lines 197-226: TRUE when it falls through to line 228.
SignatureAccepted(nonce, challenge, signature, address) ==
    /\ ~VerifyThrows(signature)
    /\ ToLowerCase(VerifyTypedData(BuildMessage(nonce, challenge), signature)) = address

ConsumeForgotten(nonce) == nonceChallenges

\* challenge.consumed = true
Consume(nonce) == [nonceChallenges EXCEPT ![nonce].consumed = TRUE]

\* History: what the handshake was worth in the state it arrived in, stated
\* on numbers and identities rather than by the handler's control flow.
ParseISO(str) ==
    LET RECURSIVE Value(_)
        Value(k) == IF k = 0 THEN 0 ELSE 10 * Value(k - 1) + str[k]
    IN Value(Len(str))

HandshakeAuthentic(addressRaw, signature, nonce) ==
    /\ ~Falsy(addressRaw) /\ signature.kind # "none" /\ nonce # NoNonce
    /\ nonce \in DOMAIN nonceChallenges
    /\ ~nonceChallenges[nonce].consumed
    /\ DateNow < ParseISO(nonceChallenges[nonce].expirationTime)
    /\ addressRaw.id = nonceChallenges[nonce].address
    /\ signature.kind = "sig"
    /\ signature.msg = BuildMessage(nonce, nonceChallenges[nonce])
    /\ signature.signer = addressRaw.id

Bump(n) == IF n < 2 THEN n + 1 ELSE n

\* What the handler leaves behind, for each way through it.
Outcome(challenges, registry, sockets, counts, emits) ==
    [challenges |-> challenges, registry |-> registry, sockets |-> sockets,
     counts |-> counts, emits |-> emits]

Refused(s, line) ==
    Outcome(nonceChallenges, addressToSockets, connected, authCount, Refuse(s, line))

AuthOutcome(s, addressRaw, signature, nonce) ==
    IF MissingAuth(addressRaw, signature, nonce) THEN Refused(s, 173)
    ELSE IF GetAddressThrows(addressRaw) THEN Refused(s, 180)
    ELSE IF ChallengeRefused(nonce) THEN Refused(s, 185)
    ELSE IF ChallengeExpired(Get(nonceChallenges, nonce))
    THEN Outcome(Delete(nonceChallenges, nonce), addressToSockets, connected,
                 authCount, Refuse(s, 190))
    ELSE IF Get(nonceChallenges, nonce).address # ToLowerCase(GetAddress(addressRaw))
    THEN Refused(s, 194)
    ELSE IF ~SignatureAccepted(nonce, Get(nonceChallenges, nonce), signature,
                               ToLowerCase(GetAddress(addressRaw)))
    THEN Refused(s, IF VerifyThrows(signature) THEN 225 ELSE 222)
    ELSE LET address == ToLowerCase(GetAddress(addressRaw)) IN
         Outcome(Consume(nonce),
                 Register(address, s),
                 Set(connected, s,
                     [address |-> address,
                      authentic |-> HandshakeAuthentic(addressRaw, signature, nonce)]),
                 [authCount EXCEPT ![nonce] = Bump(@)],
                 OnlineEmits(address, s, 245, 246)
                     (+) SnapshotEmit(Register(address, s), s, 250))

ConnectAuth(s, addressRaw, signature, nonce) ==
    /\ variant = "auth"
    /\ s \in FreshSocketIds
    /\ LET after == AuthOutcome(s, addressRaw, signature, nonce) IN
       /\ nonceChallenges' = after.challenges
       /\ addressToSockets' = after.registry
       /\ connected' = after.sockets
       /\ authCount' = after.counts
       /\ out' = after.emits
    /\ UNCHANGED <<variant, now, nextNonce, chatRoomMembers>>

\* What a client can sign: the payload of a stored challenge, as issued or
\* with its chainId changed, or typed data of its own making.
IssuedPayloads ==
    {BuildMessage(n, nonceChallenges[n]) : n \in DOMAIN nonceChallenges}
ClientPayloads ==
    IssuedPayloads \cup {[m EXCEPT !.chainId = 2] : m \in IssuedPayloads}
        \cup {[NoTyped EXCEPT !.name = APP_NAME]}

Handshake(addressRaw, signature, nonce) ==
    [address |-> addressRaw, signature |-> signature, nonce |-> nonce]

Checksummed(i) == [id |-> i, form |-> "checksum"]

\* The handshakes tried.  Complete ones: any claimed address, any signer, any
\* payload a client can sign, any nonce ever handed out or not.  Defective
\* ones: the handshake the holder of a stored challenge would send, with the
\* address, the signature or the nonce left out, the address miswritten, or
\* the signature bytes damaged.
Handshakes ==
    {Handshake(Checksummed(i), Sign(k, m), n) :
        i \in Identities, k \in Identities, m \in ClientPayloads, n \in Nonces}
    \cup UNION {
        LET i    == nonceChallenges[n].address
            good == Sign(i, BuildMessage(n, nonceChallenges[n]))
        IN {Handshake(NoAddress, good, n),
            Handshake([id |-> i, form |-> "badsum"], good, n),
            Handshake(Checksummed(i), NoSignature, n),
            Handshake(Checksummed(i), MalformedSignature, n),
            Handshake(Checksummed(i), good, NoNonce)} : n \in DOMAIN nonceChallenges}

\* ------------------------------------------ index.ts: io.on('connection')
ChatConnectOutcome(s, addressRaw) ==
    IF Falsy(addressRaw) THEN Refused(s, 34)
    ELSE LET address == ToLowerCase(addressRaw) IN
         Outcome(nonceChallenges,
                 Register(address, s),
                 Set(connected, s,
                     [address |-> address,
                      authentic |-> HandshakeAuthentic(addressRaw, NoSignature, NoNonce)]),
                 authCount,
                 OnlineEmits(address, s, 53, 54)
                     (+) SnapshotEmit(Register(address, s), s, 58)
                     (+) SnapshotEmit(Register(address, s), s, 64))

ConnectChat(s, addressRaw) ==
    /\ variant = "chat"
    /\ s \in FreshSocketIds
    /\ addressToSockets' = ChatConnectOutcome(s, addressRaw).registry
    /\ connected' = ChatConnectOutcome(s, addressRaw).sockets
    /\ out' = ChatConnectOutcome(s, addressRaw).emits
    /\ UNCHANGED <<variant, now, nonceChallenges, nextNonce, chatRoomMembers, authCount>>

\* ------------------------------------------------- socket.on('dm:send')
Bodies    == {"", "hi"}
DmTargets == [id : Identities, form : {"checksum"}] \cup {NoAddress}

DmEvents == {"dm:message", "dm:receive", "dm:sent"}

FanOutToOne(ev, recipientSockets, msg, line) ==
    IF recipientSockets = {} THEN EmptyBag
    ELSE One(Emit(ev, {CHOOSE id \in recipientSockets : TRUE} \cap LiveSockets,
                  "", {}, msg, line))

\* for (const id of recipientSockets) io.to(id).emit(ev, msg)
FanOut(ev, recipientSockets, msg, line) ==
    SetToBag({Emit(ev, {id} \cap LiveSockets, "", {}, msg, line) : id \in recipientSockets})

\* socket.emit(ev, msg): the echo to the sender.
Echo(ev, s, msg, line) == One(Emit(ev, {s}, "", {}, msg, line))

DmEmits(s, to, body) ==
    LET msg == [from |-> connected[s].address, to |-> to, body |-> body, ts |-> DateNow]
        recipient == ToLowerCase(to)
        recipientSockets ==
            IF Has(addressToSockets, recipient) THEN Get(addressToSockets, recipient) ELSE {}
    IN IF variant = "auth"
       THEN FanOut("dm:message", recipientSockets, msg, 272) (+) Echo("dm:message", s, msg, 277)
       ELSE FanOut("dm:receive", recipientSockets, msg, 90) (+) Echo("dm:sent", s, msg, 97)

\* if (!to || !body) return;
DmOutcome(s, to, body) ==
    IF Falsy(to) \/ body = "" THEN EmptyBag ELSE DmEmits(s, to, body)

DmSend(s, to, body) ==
    /\ s \in LiveSockets
    /\ out' = DmOutcome(s, to, body)
    /\ UNCHANGED <<variant, now, nonceChallenges, nextNonce, addressToSockets,
                   chatRoomMembers, connected, authCount>>

\* ----------------------------------------------- socket.on('join_chat')
\* members = get(chatId) or a new empty set put in the map; members.add(address)
JoinMembers(chatId, address) ==
    (IF Has(chatRoomMembers, chatId) THEN Get(chatRoomMembers, chatId) ELSE {})
        \cup {address}

SizeBefore(chatId) ==
    IF Has(chatRoomMembers, chatId) THEN Cardinality(Get(chatRoomMembers, chatId)) ELSE 0

ActiveEmitsAtTwoOrMore(chatId, before, members) ==
    IF Cardinality(members) >= 2
    THEN One(LogChat("log:CHAT ACTIVE", chatId, members, 116))
    ELSE EmptyBag

\* if (before < 2 && members.size >= 2) console.log('CHAT ACTIVE:', ...)
ActiveEmits(chatId, before, members) ==
    IF before < 2 /\ Cardinality(members) >= 2
    THEN One(LogChat("log:CHAT ACTIVE", chatId, members, 116))
    ELSE EmptyBag

\* socket.join(chatId) and socket.leave(chatId) subscribe the socket in the
\* transport's adapter; the server never emits to a transport room, so that
\* subscription is no state of these programs.
JoinOutcome(s, chatId) ==
    [rooms |-> Set(chatRoomMembers, chatId, JoinMembers(chatId, connected[s].address)),
     emits |-> ActiveEmits(chatId, SizeBefore(chatId),
                           JoinMembers(chatId, connected[s].address))]

JoinChat(s, chatId) ==
    /\ variant = "chat"
    /\ s \in LiveSockets
    /\ chatRoomMembers' = JoinOutcome(s, chatId).rooms
    /\ out' = JoinOutcome(s, chatId).emits
    /\ UNCHANGED <<variant, now, nonceChallenges, nextNonce, addressToSockets,
                   connected, authCount>>

\* ------------------------------------------------------------- leaveChat
LeaveMembersBelowOne(rooms, chatId, address) ==
    IF ~Has(rooms, chatId) THEN rooms
    ELSE IF Cardinality(Get(rooms, chatId) \ {address}) < 1
    THEN Delete(rooms, chatId)
    ELSE Set(rooms, chatId, Get(rooms, chatId) \ {address})

\* members.delete(address); if (members.size < 2) chatRoomMembers.delete(chatId)
LeaveMembers(rooms, chatId, address) ==
    IF ~Has(rooms, chatId) THEN rooms
    ELSE IF Cardinality(Get(rooms, chatId) \ {address}) < 2
    THEN Delete(rooms, chatId)
    ELSE Set(rooms, chatId, Get(rooms, chatId) \ {address})

InactiveEmits(rooms, chatId, address, line) ==
    IF Has(rooms, chatId) /\ Cardinality(Get(rooms, chatId) \ {address}) < 2
    THEN One(LogChat("log:CHAT INACTIVE", chatId, {}, line))
    ELSE EmptyBag

LeaveOutcome(s, chatId) ==
    [rooms |-> LeaveMembers(chatRoomMembers, chatId, connected[s].address),
     emits |-> InactiveEmits(chatRoomMembers, chatId, connected[s].address, 165)]

LeaveChat(s, chatId) ==
    /\ variant = "chat"
    /\ s \in LiveSockets
    /\ chatRoomMembers' = LeaveOutcome(s, chatId).rooms
    /\ out' = LeaveOutcome(s, chatId).emits
    /\ UNCHANGED <<variant, now, nonceChallenges, nextNonce, addressToSockets,
                   connected, authCount>>

\* ---------------------------------------------- socket.on('disconnect')
DeregisterKeepingEntry(address, s) ==
    Set(addressToSockets, address, Get(addressToSockets, address) \ {s})

DeregisterSkipped(address, s) == addressToSockets

\* sockets.delete(socket.id); if (sockets.size === 0) addressToSockets.delete(address)
Deregister(address, s) ==
    IF Get(addressToSockets, address) \ {s} = {}
    THEN Delete(addressToSockets, address)
    ELSE Set(addressToSockets, address, Get(addressToSockets, address) \ {s})

OfflineEmits(address, s, logLine, emitLine) ==
    IF Get(addressToSockets, address) \ {s} = {}
    THEN One(Emit("log:USER OFFLINE", {}, address, {}, NoMsg, logLine))
         (+) One(Emit("presence:offline", OtherSockets(s), address, {}, NoMsg, emitLine))
    ELSE EmptyBag

SweepRoomsKeepingEntry(address) ==
    [c \in DOMAIN chatRoomMembers |-> chatRoomMembers[c] \ {address}]

SweepRoomsSkipped(address) == chatRoomMembers

\* index.ts lines 142-148: for every room that held the address, delete the
\* address and, below two members, the room.
SweepRooms(address) ==
    [c \in {c \in DOMAIN chatRoomMembers :
               address \notin chatRoomMembers[c]
               \/ Cardinality(chatRoomMembers[c] \ {address}) >= 2}
       |-> chatRoomMembers[c] \ {address}]

SweepEmits(address) ==
    SetToBag({LogChat("log:CHAT INACTIVE", c, {}, 146) :
                c \in {c \in DOMAIN chatRoomMembers :
                          /\ address \in chatRoomMembers[c]
                          /\ Cardinality(chatRoomMembers[c] \ {address}) < 2}})

DisconnectOutcome(s) ==
    LET address == connected[s].address IN
    IF ~Has(addressToSockets, address)
    THEN [registry |-> addressToSockets, rooms |-> chatRoomMembers, emits |-> EmptyBag]
    ELSE IF variant = "auth"
    THEN [registry |-> Deregister(address, s),
          rooms    |-> chatRoomMembers,
          emits    |-> OfflineEmits(address, s, 291, 292)]
    ELSE [registry |-> Deregister(address, s),
          rooms    |-> SweepRooms(address),
          emits    |-> OfflineEmits(address, s, 138, 139) (+) SweepEmits(address)]

\* The transport takes the socket out of the namespace, then fires 'disconnect'.
Disconnect(s) ==
    /\ s \in LiveSockets
    /\ connected' = Delete(connected, s)
    /\ addressToSockets' = DisconnectOutcome(s).registry
    /\ chatRoomMembers' = DisconnectOutcome(s).rooms
    /\ out' = DisconnectOutcome(s).emits
    /\ UNCHANGED <<variant, now, nonceChallenges, nextNonce, authCount>>

\* ------------------------------------------------------------------- Next
Next ==
    \/ Tick
    \/ \E r \in Requests : HttpRequest(r.method, r.path, r.address, r.chainId, r.origin)
    \/ \E s \in SocketIds, h \in Handshakes :
          ConnectAuth(s, h.address, h.signature, h.nonce)
    \/ \E s \in SocketIds, a \in RawAddresses : ConnectChat(s, a)
    \/ \E s \in SocketIds, t \in DmTargets, b \in Bodies : DmSend(s, t, b)
    \/ \E s \in SocketIds, c \in ChatIds : JoinChat(s, c)
    \/ \E s \in SocketIds, c \in ChatIds : LeaveChat(s, c)
    \/ \E s \in SocketIds : Disconnect(s)

Spec == Init /\ [][Next]_vars

\* =================================================================== claims
Events(bag) == BagToSet(bag)

Refusals(bag) == {e \in Events(bag) : e.ev = "disconnect"}

Unexpired(nonce) ==
    /\ nonce \in DOMAIN nonceChallenges
    /\ DateNow < ParseISO(nonceChallenges[nonce].expirationTime)

\* C1: every socket id in the presence registry is that of an open connection
\* whose handshake carried an address, a signature and a nonce, named a stored,
\* unconsumed, unexpired challenge, and whose claimed, challenge-bound and
\* recovered identities were equal.
C1_RegisteredOnlyIfAuthenticated ==
    \A a \in DOMAIN addressToSockets :
        \A s \in addressToSockets[a] :
            s \in LiveSockets /\ connected[s].authentic

\* C1 for part_000 alone, where the handshake is checked before registration.
C1_HoldsWithChallenge ==
    variant = "auth" => C1_RegisteredOnlyIfAuthenticated

\* C2: at most one connection ever authenticates with a nonce, and a nonce a
\* connection authenticated with stays stored and consumed.
C2_NonceSingleUse ==
    \A n \in Nonces :
        /\ authCount[n] <= 1
        /\ authCount[n] = 1 =>
              n \in DOMAIN nonceChallenges /\ nonceChallenges[n].consumed

\* Every nonce there is has authenticated a connection, none has expired, and
\* the last attempt (which named one of them) was turned away at the lookup.
C2_Witness ==
    /\ \A n \in Nonces : authCount[n] = 1 /\ Unexpired(n)
    /\ \E e \in Refusals(out) : e.line = 185

\* ---------------------------------------------------------- C3, C4 handshakes
Complete(h) ==
    ~Falsy(h.address) /\ h.signature.kind # "none" /\ h.nonce # NoNonce

WellFormed(h) == h.address.form # "badsum"

Pending(nonce) ==
    nonce \in DOMAIN nonceChallenges /\ ~nonceChallenges[nonce].consumed

Issued(nonce) == \E k \in 1..(nextNonce - 1) : NonceTokens[k] = nonce

After(s, h) == AuthOutcome(s, h.address, h.signature, h.nonce)

NothingRegistered(after) ==
    /\ after.registry = addressToSockets
    /\ after.sockets = connected
    /\ after.counts = authCount

\* C3 as stated: an attempt that presents an unconsumed challenge at
\* now >= expirationTime is rejected and the challenge is deleted on that touch.
C3_ExpiredDeletedByAnyAttempt ==
    [][\A s \in FreshSocketIds, h \in Handshakes :
          (/\ Pending(h.nonce) /\ ~Unexpired(h.nonce)
           /\ ConnectAuth(s, h.address, h.signature, h.nonce))
              => /\ s \notin LiveSockets'
                 /\ h.nonce \notin DOMAIN nonceChallenges']_vars

\* C3, amended: an attempt that carries an address, a signature and a nonce,
\* with a well-formed address, and presents an unconsumed challenge at
\* now >= expirationTime is rejected, whatever its signature and identity, and
\* the challenge is deleted by it; every such attempt naming a nonce that is
\* not stored is rejected at the lookup; and a deleted challenge never comes
\* back.
C3_ExpiredDeletedOnTouch ==
    /\ [](variant = "auth" =>
            \A s \in FreshSocketIds, h \in Handshakes :
                (Complete(h) /\ WellFormed(h)) =>
                   /\ (Pending(h.nonce) /\ ~Unexpired(h.nonce))
                         => /\ After(s, h).challenges = Delete(nonceChallenges, h.nonce)
                            /\ NothingRegistered(After(s, h))
                            /\ After(s, h).emits = Refuse(s, 190)
                   /\ h.nonce \notin DOMAIN nonceChallenges
                         => /\ After(s, h).challenges = nonceChallenges
                            /\ NothingRegistered(After(s, h))
                            /\ After(s, h).emits = Refuse(s, 185))
    /\ [][\A n \in Nonces :
             (Issued(n) /\ n \notin DOMAIN nonceChallenges)
                 => n \notin DOMAIN nonceChallenges']_vars

\* Every nonce was handed out and has been deleted, and the last attempt
\* (which named one of them) was turned away at the lookup.
C3_Witness ==
    /\ \A n \in Nonces : Issued(n) /\ n \notin DOMAIN nonceChallenges
    /\ \E e \in Refusals(out) : e.line = 185

\* The attempt fails for a missing field, a malformed address, an identity
\* mismatch or an invalid signature.
FailsAuthentication(h) ==
    \/ ~Complete(h)
    \/ ~WellFormed(h)
    \/ /\ Pending(h.nonce) /\ Unexpired(h.nonce)
       /\ \/ h.address.id # nonceChallenges[h.nonce].address
          \/ h.signature.kind # "sig"
          \/ h.signature.signer # h.address.id
          \/ h.signature.msg # BuildMessage(h.nonce, nonceChallenges[h.nonce])

\* C4: an attempt that fails for a missing field, a malformed address, an
\* identity mismatch or an invalid signature changes neither the challenge
\* store nor the registry and emits nothing but the close; a correct attempt on
\* a pending, unexpired challenge authenticates; and a challenge becomes
\* consumed only in a step that registers a connection whose handshake verified.
C4_FailedAttemptBurnsNothing ==
    /\ [](variant = "auth" =>
            \A s \in FreshSocketIds, h \in Handshakes :
                /\ FailsAuthentication(h)
                      => /\ After(s, h).challenges = nonceChallenges
                         /\ NothingRegistered(After(s, h))
                         /\ \A e \in Events(After(s, h).emits) :
                               e.ev = "disconnect" /\ e.rcpt = {s}
                /\ (WellFormed(h) /\ HandshakeAuthentic(h.address, h.signature, h.nonce))
                      => /\ s \in DOMAIN After(s, h).sockets
                         /\ After(s, h).challenges[h.nonce].consumed)
    /\ [][\A n \in DOMAIN nonceChallenges :
             (Pending(n) /\ n \in DOMAIN nonceChallenges' /\ nonceChallenges'[n].consumed)
                 => \E s \in LiveSockets' \ LiveSockets : connected'[s].authentic]_vars

\* One nonce was handed out; an attempt naming it got as far as the identity
\* or signature check and was refused; the challenge is still pending and good.
C4_Witness ==
    /\ nextNonce = 2
    /\ Pending(NonceTokens[1]) /\ Unexpired(NonceTokens[1])
    /\ \E e \in Refusals(out) : e.line \in {194, 222, 225}

\* ------------------------------------------------------------- C5, C6 presence
RECURSIVE SumCopies(_, _)
SumCopies(bag, es) ==
    IF es = {} THEN 0
    ELSE LET e == CHOOSE x \in es : TRUE
         IN CopiesIn(e, bag) + SumCopies(bag, es \ {e})

PresenceCopies(bag, ev, i) ==
    SumCopies(bag, {e \in Events(bag) : e.ev = ev /\ e.address = i})

Conns(registry, i) ==
    IF i \in DOMAIN registry THEN Cardinality(registry[i]) ELSE 0

\* C5: in every step and for every identity, presence:online is emitted once
\* if the step takes the identity from zero connections to one and not at all
\* otherwise, and presence:offline once if it takes it from one to zero and not
\* at all otherwise.
C5_PresenceOnTransitionsOnly ==
    [][\A i \in Identities :
          /\ PresenceCopies(out', "presence:online", i) =
                IF Conns(addressToSockets, i) = 0 /\ Conns(addressToSockets', i) = 1
                THEN 1 ELSE 0
          /\ PresenceCopies(out', "presence:offline", i) =
                IF Conns(addressToSockets, i) = 1 /\ Conns(addressToSockets', i) = 0
                THEN 1 ELSE 0]_vars

\* A connection has just been registered as its identity's second (or later)
\* and presence:online was not emitted.
C5_Witness ==
    \E i \in Identities, e \in Events(out) :
        /\ e.ev = "presence:snapshot"
        /\ Conns(addressToSockets, i) >= 2
        /\ e.rcpt \subseteq addressToSockets[i]
        /\ PresenceCopies(out, "presence:online", i) = 0

\* C6: the registry maps each identity with an open connection, and no other,
\* to exactly the ids of its open connections; no entry is empty.
C6_RegistryIsLiveConnections ==
    /\ \A i \in DOMAIN addressToSockets :
          /\ addressToSockets[i] # {}
          /\ addressToSockets[i] = {s \in LiveSockets : connected[s].address = i}
    /\ \A s \in LiveSockets : connected[s].address \in DOMAIN addressToSockets

\* One identity has just gone offline while another holds two connections.
C6_Witness ==
    \E i \in Identities, j \in Identities :
        /\ i # j
        /\ i \notin DOMAIN addressToSockets
        /\ PresenceCopies(out, "presence:offline", i) = 1
        /\ Conns(addressToSockets, j) >= 2

\* ------------------------------------------------------------- C7, C8 relay
RegisteredFor(i) ==
    IF i \in DOMAIN addressToSockets THEN addressToSockets[i] ELSE {}

Deliveries(bag) == {e \in Events(bag) : e.ev \in {"dm:message", "dm:receive"}}
Echoes(bag)     == {e \in Events(bag) : e.ev \in {"dm:message", "dm:sent"}}

C8_AtMostOncePerConnection ==
    \A s \in SocketIds, ev \in DmEvents :
        SumCopies(out, {e \in Events(out) : e.ev = ev /\ s \in e.rcpt}) <= 1

\* -------------------------------------------------------------- C9, C10 rooms
\* C9: the disconnect of a connection whose identity has another open
\* connection leaves the identity in every room it is a member of.
C9_MembershipSurvivesOtherConnection ==
    [][\A s \in LiveSockets :
          (/\ LiveSockets' = LiveSockets \ {s}
           /\ Conns(addressToSockets, connected[s].address) >= 2)
              => \A c \in DOMAIN chatRoomMembers :
                    connected[s].address \in chatRoomMembers[c]
                        => /\ c \in DOMAIN chatRoomMembers'
                           /\ connected[s].address \in chatRoomMembers'[c]]_vars

MembersOf(rooms, c) == IF c \in DOMAIN rooms THEN rooms[c] ELSE {}

ActiveCopies(bag, c) ==
    SumCopies(bag, {e \in Events(bag) : e.ev = "log:CHAT ACTIVE" /\ e.chat = c})

\* C10: join_chat adds the caller's identity to the room and touches no other
\* room; a join by an identity already in the room changes nothing and emits
\* nothing; the room-active signal is emitted once by the join that takes the
\* member count from below 2 to 2 and by no other join.
C10_JoinIdempotentActiveOnce ==
    variant = "chat" =>
        \A s \in LiveSockets, c \in ChatIds :
            LET a      == connected[s].address
                before == MembersOf(chatRoomMembers, c)
                after  == JoinOutcome(s, c)
            IN /\ after.rooms =
                     [d \in DOMAIN chatRoomMembers \cup {c} |->
                        IF d = c THEN before \cup {a} ELSE chatRoomMembers[d]]
               /\ a \in before =>
                     after.rooms = chatRoomMembers /\ after.emits = EmptyBag
               /\ ActiveCopies(after.emits, c) =
                     IF Cardinality(before) < 2 /\ Cardinality(before \cup {a}) = 2
                     THEN 1 ELSE 0
               /\ BagCardinality(after.emits) = ActiveCopies(after.emits, c)

\* A room has just become active with its second member.
C10_Witness ==
    \E c \in DOMAIN chatRoomMembers :
        /\ Cardinality(chatRoomMembers[c]) = 2
        /\ ActiveCopies(out, c) = 1

\* ------------------------------------------------------------ C11, C12 leave
InactiveCopies(bag, c) ==
    SumCopies(bag, {e \in Events(bag) : e.ev = "log:CHAT INACTIVE" /\ e.chat = c})

\* C11: leave_chat by a member of the room takes the caller's identity out of
\* the room's member set; when fewer than 2 members remain the room's entry is
\* deleted and room-inactive is emitted once, and when 2 or more remain the
\* entry is kept with exactly the remaining members and nothing is emitted; no
\* other room is touched.  A room of exactly two is made inactive by a leave
\* of either member.
C11_LeaveByMember ==
    variant = "chat" =>
        \A s \in LiveSockets, c \in DOMAIN chatRoomMembers :
            connected[s].address \in chatRoomMembers[c] =>
                LET a     == connected[s].address
                    rest  == chatRoomMembers[c] \ {a}
                    after == LeaveOutcome(s, c)
                IN /\ a \notin MembersOf(after.rooms, c)
                   /\ \A d \in DOMAIN chatRoomMembers \ {c} :
                         d \in DOMAIN after.rooms /\ after.rooms[d] = chatRoomMembers[d]
                   /\ DOMAIN after.rooms \subseteq DOMAIN chatRoomMembers
                   /\ Cardinality(rest) < 2 =>
                         /\ c \notin DOMAIN after.rooms
                         /\ InactiveCopies(after.emits, c) = 1
                         /\ BagCardinality(after.emits) = 1
                   /\ Cardinality(rest) >= 2 =>
                         /\ c \in DOMAIN after.rooms /\ after.rooms[c] = rest
                         /\ after.emits = EmptyBag
                   /\ Cardinality(chatRoomMembers[c]) = 2 =>
                         InactiveCopies(after.emits, c) = 1

\* A leave_chat has just deleted one room and logged it, while another room
\* holds three members, one of whom can leave it without a signal.
C11_Witness ==
    \E c \in ChatIds, d \in DOMAIN chatRoomMembers :
        /\ c \notin DOMAIN chatRoomMembers
        /\ \E e \in Events(out) : e.ev = "log:CHAT INACTIVE" /\ e.chat = c /\ e.line = 165
        /\ Cardinality(chatRoomMembers[d]) = 3

\* C12: no room id is mapped to an empty member set.
C12_NoEmptyRoom ==
    \A c \in DOMAIN chatRoomMembers : chatRoomMembers[c] # {}

\* A disconnect has just swept a room away while another room is left with a
\* single member.
C12_Witness ==
    \E c \in ChatIds, d \in DOMAIN chatRoomMembers :
        /\ c \notin DOMAIN chatRoomMembers
        /\ \E e \in Events(out) : e.ev = "log:CHAT INACTIVE" /\ e.chat = c /\ e.line = 146
        /\ Cardinality(chatRoomMembers[d]) = 1

\* ------------------------------------------------- C13, C14, C15 connect, close
SnapshotsOf(bag) == {e \in Events(bag) : e.ev = "presence:snapshot"}

Listed(e) == {u.address : u \in e.users}

\* C13: every presence:snapshot is emitted by the step that opens a connection
\* and goes to that connection alone; it lists, each as online, exactly the
\* keys of the registry after the registration, which are exactly the
\* identities of the open connections, the new connection's own among them;
\* and every step that opens a connection emits a snapshot.
C13_SnapshotToNewConnectionOnly ==
    [][/\ \A e \in SnapshotsOf(out') :
             \E s \in LiveSockets' \ LiveSockets :
                 /\ e.rcpt = {s}
                 /\ Listed(e) = DOMAIN addressToSockets'
                 /\ Listed(e) = {connected'[t].address : t \in LiveSockets'}
                 /\ connected'[s].address \in Listed(e)
                 /\ \A u \in e.users : u.online
       /\ LiveSockets' \ LiveSockets # {} => SnapshotsOf(out') # {}]_vars

\* The third connection has just been opened and was sent a snapshot of two
\* identities; the third identity is offline.
C13_Witness ==
    /\ Cardinality(LiveSockets) = 3
    /\ \E e \in SnapshotsOf(out) :
          /\ Cardinality(Listed(e)) = 2
          /\ Identities \ Listed(e) # {}
          /\ e.rcpt \subseteq LiveSockets

\* C14: the close of any registered connection takes its id out of its
\* identity's registry set and, in index.ts, takes the identity out of every
\* room under the rule of leave_chat (entry deleted and logged below 2
\* members), so that the registry never holds the id of a closed connection;
\* a connection refused in the connection handler leaves registry and open
\* connections as they were and emits nothing but its own close.
C14_CloseRunsTeardown ==
    /\ \A i \in DOMAIN addressToSockets : addressToSockets[i] \subseteq LiveSockets
    /\ \A s \in LiveSockets :
          LET a     == connected[s].address
              after == DisconnectOutcome(s)
          IN /\ \A i \in DOMAIN after.registry : s \notin after.registry[i]
             /\ Conns(after.registry, a) = Conns(addressToSockets, a) - 1
             /\ \A i \in Identities \ {a} :
                   Conns(after.registry, i) = Conns(addressToSockets, i)
             /\ variant = "chat" =>
                   \A c \in DOMAIN chatRoomMembers :
                       LET rest == chatRoomMembers[c] \ {a}
                       IN /\ a \notin MembersOf(after.rooms, c)
                          /\ a \notin chatRoomMembers[c] =>
                                MembersOf(after.rooms, c) = chatRoomMembers[c]
                          /\ (a \in chatRoomMembers[c] /\ Cardinality(rest) >= 2) =>
                                MembersOf(after.rooms, c) = rest
                          /\ (a \in chatRoomMembers[c] /\ Cardinality(rest) < 2) =>
                                /\ c \notin DOMAIN after.rooms
                                /\ InactiveCopies(after.emits, c) = 1
    /\ variant = "auth" =>
          \A s \in FreshSocketIds, h \in Handshakes :
              After(s, h).sockets = connected =>
                  /\ After(s, h).registry = addressToSockets
                  /\ \A e \in Events(After(s, h).emits) :
                        e.ev = "disconnect" /\ e.rcpt = {s}
    /\ variant = "chat" =>
          \A s \in FreshSocketIds, r \in RawAddresses :
              ChatConnectOutcome(s, r).sockets = connected =>
                  /\ ChatConnectOutcome(s, r).registry = addressToSockets
                  /\ \A e \in Events(ChatConnectOutcome(s, r).emits) :
                        e.ev = "disconnect" /\ e.rcpt = {s}

\* A connection has just closed whose identity stays online on another
\* connection (no presence:offline), and the identity's room was swept.
C14_Witness ==
    /\ LiveSockets # {}
    /\ \E e \in Events(out) : e.ev = "log:CHAT INACTIVE" /\ e.line = 146
    /\ \A e \in Events(out) : e.ev # "presence:offline"

\* C15: presence:online goes to every connection that was open before the
\* new one and not to the new one, whose identity it names; presence:offline
\* goes to every connection open after the close and names an identity that
\* has left the registry.
C15_PresenceBroadcastRecipients ==
    [][\A e \in Events(out') :
          /\ e.ev = "presence:online" =>
                /\ e.rcpt = LiveSockets
                /\ \E s \in LiveSockets' \ LiveSockets :
                      /\ connected'[s].address = e.address
                      /\ s \notin e.rcpt
                      /\ e.rcpt = LiveSockets' \ {s}
          /\ e.ev = "presence:offline" =>
                /\ e.rcpt = LiveSockets'
                /\ LiveSockets \ LiveSockets' # {}
                /\ e.address \notin DOMAIN addressToSockets']_vars

\* presence:online has just gone to the two connections that were open.
C15_Witness ==
    \E e \in Events(out) :
        /\ e.ev = "presence:online"
        /\ Cardinality(e.rcpt) = 2
        /\ Cardinality(LiveSockets) = 3
        /\ e.rcpt \subseteq LiveSockets

\* --------------------------------------------------- C16, C17, C18 room frame
\* C16: leave_chat for a room the caller's identity is not a member of leaves
\* the room map as it is and emits nothing.
C16_LeaveByNonMemberChangesNothing ==
    \A s \in LiveSockets, c \in ChatIds :
        connected[s].address \notin MembersOf(chatRoomMembers, c) =>
            /\ LeaveOutcome(s, c).rooms = chatRoomMembers
            /\ LeaveOutcome(s, c).emits = EmptyBag

\* C17: no leave_chat and no disconnect of a connection of one identity takes
\* another identity out of a room.
C17_MembershipEndedOnlyByOwnActions ==
    \A s \in LiveSockets, d \in DOMAIN chatRoomMembers :
        \A b \in chatRoomMembers[d] \ {connected[s].address} :
            /\ b \in MembersOf(DisconnectOutcome(s).rooms, d)
            /\ \A c \in ChatIds : b \in MembersOf(LeaveOutcome(s, c).rooms, d)

\* C18: in every step and for every room, room-inactive is emitted once if the
\* step takes the room from 2 or more members to fewer than 2 and not at all
\* otherwise, and room-active once if it takes it from fewer than 2 to 2 or
\* more and not at all otherwise; hence the two alternate, active first.
C18_ActiveInactiveAlternate ==
    [][\A c \in ChatIds :
          LET before == Cardinality(MembersOf(chatRoomMembers, c))
              after  == Cardinality(MembersOf(chatRoomMembers', c))
          IN /\ InactiveCopies(out', c) = IF before >= 2 /\ after < 2 THEN 1 ELSE 0
             /\ ActiveCopies(out', c) = IF before < 2 /\ after >= 2 THEN 1 ELSE 0]_vars

\* ------------------------------------------------------------------ C19, C20
\* C19: the step that opens a connection emits exactly one presence:snapshot
\* to it, and no other step emits a presence:snapshot.
C19_ExactlyOneSnapshot ==
    [][/\ \A s \in LiveSockets' \ LiveSockets :
             SumCopies(out', {e \in SnapshotsOf(out') : s \in e.rcpt}) = 1
       /\ LiveSockets' \ LiveSockets = {} => SnapshotsOf(out') = {}]_vars

\* C19 for part_000 alone, which emits the snapshot once.
C19_HoldsWithChallenge ==
    [][variant = "auth" =>
          /\ \A s \in LiveSockets' \ LiveSockets :
                SumCopies(out', {e \in SnapshotsOf(out') : s \in e.rcpt}) = 1
          /\ LiveSockets' \ LiveSockets = {} => SnapshotsOf(out') = {}]_vars

\* C20: every member of every room has an open connection.
C20_MembersAreOnline ==
    \A c \in DOMAIN chatRoomMembers :
        \A m \in chatRoomMembers[c] : Conns(addressToSockets, m) >= 1

\* An identity has just gone offline and a room of its own was swept away,
\* while another room still has a member.
C20_Witness ==
    /\ \E e \in Events(out) : e.ev = "log:CHAT INACTIVE" /\ e.line = 146
    /\ \E e \in Events(out) :
          e.ev = "presence:offline" /\ e.address \notin DOMAIN addressToSockets
    /\ DOMAIN chatRoomMembers # {}

====
